---- MODULE Spec2Model ----
(***************************************************************************)
(* Lazy lists of lsund/vfp (lazy-evaluation): the thunk-based LazyList,    *)
(* the producers range and toLazyList, the consumer take, and the          *)
(* draining loop toJavascriptArray.                                        *)
(*                                                                         *)
(* A LazyList is a closure.  A closure is modelled by the function that    *)
(* built it and the variables it captured; invoking ("forcing") it is the  *)
(* operator Force, which returns the outcome of the call, the node it      *)
(* returned and the sequence of closure invocations the call performed,    *)
(* in evaluation order.  Numbers are mathematical integers: the spec puts  *)
(* the numeric type's overflow and rounding out of scope.                  *)
(***************************************************************************)
EXTENDS Integers, Sequences, FiniteSets

VARIABLES lst, pc, current, ret, calls, forced, headCalls

vars == <<lst, pc, current, ret, calls, forced, headCalls>>

---------------------------------------------------------------------------
(* Bounds of the model *)

MaxCount == 5
MaxNeg == 2
MaxLen == 3

\* cap on the iterations of a drain that would never end
MaxSteps == MaxCount + 2

Starts == {0, 100}
Vals == {1, 2, 3}
Counts == (0 - MaxNeg)..MaxCount

---------------------------------------------------------------------------
(* Values *)

\* the empty list a LazyList forces to
Null == [kind |-> "null"]

\* { head: ..., tail: ... }
Node(head, tail) == [kind |-> "node", head |-> head, tail |-> tail]

\* a head thunk: () => start, () => xs[0], () => 1
Lazy(v) == [kind |-> "lazy", v |-> v]

\* invoking a head thunk
HeadForce(h) == h.v

---------------------------------------------------------------------------
(* Closures: what the constructors return without running anything *)

range(start) == [kind |-> "range", start |-> start]

toLazyList(xs) == [kind |-> "toLazyList", xs |-> xs]

take(n, xs) == [kind |-> "take", n |-> n, xs |-> xs]

\* () => bottom()
bottom == [kind |-> "bottom"]

\* () => ({ head: () => v, tail: tail }), a list written out by hand
cons(v, tail) == [kind |-> "cons", v |-> v, tail |-> tail]

\* a hand-written list with the elements of a, continued by the list end
RECURSIVE literal(_, _)
literal(a, end) ==
    IF Len(a) = 0 THEN end ELSE cons(a[1], literal(Tail(a), end))

---------------------------------------------------------------------------
(* Forcing *)

\* the result of one invocation of a closure
Result(out, node, log) == [out |-> out, node |-> node, calls |-> log]

Abnormal == {"TypeError", "bottom"}

RECURSIVE Force(_)

\* range with a tail that repeats the same start
rangeForce_noIncrement(start) ==
    Result("node", Node(Lazy(start), range(start)), <<range(start)>>)

\* range that forces its successor while building the node
rangeForce_eager(start) ==
    Result("node", Node(Lazy(start), range(start + 1)),
           <<range(start), range(start + 1)>>)

\* () => ({ head: () => start, tail: range(start + 1) })
rangeForce(start) ==
    Result("node", Node(Lazy(start), range(start + 1)), <<range(start)>>)

\* () => xs.length === 0 ? null : ({ head: () => xs[0], tail: toLazyList(xs.slice(1)) })
toLazyListForce(xs) ==
    IF Len(xs) = 0
    THEN Result("null", Null, <<toLazyList(xs)>>)
    ELSE Result("node", Node(Lazy(xs[1]), toLazyList(Tail(xs))),
                <<toLazyList(xs)>>)

\* () => bottom(): the call never returns a value
bottomForce ==
    Result("bottom", Null, <<bottom>>)

consForce(v, tail) ==
    Result("node", Node(Lazy(v), tail), <<cons(v, tail)>>)

\* the body of take's closure once n === 0 has failed:
\* ({ head: xs()!.head, tail: take(n - 1, xs()!.tail) }), left to right
takeNode(n, xs) ==
    LET self == <<take(n, xs)>>
        r1 == Force(xs)
    IN  IF r1.out \in Abnormal
        THEN Result(r1.out, Null, self \o r1.calls)
        ELSE IF r1.out = "null"
        THEN Result("TypeError", Null, self \o r1.calls)
        ELSE LET r2 == Force(xs)
             IN  IF r2.out \in Abnormal
                 THEN Result(r2.out, Null, self \o r1.calls \o r2.calls)
                 ELSE IF r2.out = "null"
                 THEN Result("TypeError", Null, self \o r1.calls \o r2.calls)
                 ELSE Result("node",
                             Node(r1.node.head, take(n - 1, r2.node.tail)),
                             self \o r1.calls \o r2.calls)

\* take that forces xs before it tests the count
takeForce_forceFirst(n, xs) ==
    LET r1 == Force(xs)
    IN  IF r1.out \in Abnormal
        THEN Result(r1.out, Null, <<take(n, xs)>> \o r1.calls)
        ELSE IF n = 0
        THEN Result("null", Null, <<take(n, xs)>> \o r1.calls)
        ELSE takeNode(n, xs)

\* take whose test is off by one
takeForce_offByOne(n, xs) ==
    IF n = 0 - 1
    THEN Result("null", Null, <<take(n, xs)>>)
    ELSE takeNode(n, xs)

\* take that stops at any count that is not positive
takeForce_guarded(n, xs) ==
    IF n <= 0
    THEN Result("null", Null, <<take(n, xs)>>)
    ELSE takeNode(n, xs)

\* () => n === 0 ? null : ({ head: xs()!.head, tail: take(n - 1, xs()!.tail) })
takeForce(n, xs) ==
    IF n = 0
    THEN Result("null", Null, <<take(n, xs)>>)
    ELSE takeNode(n, xs)

\* invoking a LazyList
Force(l) ==
    CASE l.kind = "range" -> rangeForce(l.start)
      [] l.kind = "toLazyList" -> toLazyListForce(l.xs)
      [] l.kind = "take" -> takeForce(l.n, l.xs)
      [] l.kind = "cons" -> consForce(l.v, l.tail)
      [] l.kind = "bottom" -> bottomForce

---------------------------------------------------------------------------
(* The lists the program is run on *)

RECURSIVE SeqsUpTo(_)
SeqsUpTo(len) ==
    IF len = 0 THEN {<<>>}
    ELSE LET shorter == SeqsUpTo(len - 1)
         IN  shorter \cup
             {Append(a, v) : a \in {b \in shorter : Len(b) = len - 1}, v \in Vals}

Arrays == SeqsUpTo(MaxLen)

Sources ==
    {range(s) : s \in Starts}
    \cup {toLazyList(a) : a \in Arrays}
    \cup {literal(a, bottom) : a \in Arrays}

Takes1 == {take(n, x) : n \in Counts, x \in Sources}

Takes2 == {take(n, x) : n \in Counts, x \in Takes1}

Inputs == Sources \cup Takes1 \cup Takes2

---------------------------------------------------------------------------
(* toJavascriptArray(lst) *)

SetOf(s) == {s[i] : i \in 1..Len(s)}

Init ==
    /\ lst \in Inputs
    /\ pc = "start"
    /\ current = Null
    /\ ret = <<>>
    /\ calls = <<>>
    /\ forced = {}
    /\ headCalls = 0

\* where control goes after a force
After(r) == IF r.out \in Abnormal THEN r.out ELSE "loop"

\* let current = xs(); let ret = [];
Begin ==
    /\ pc = "start"
    /\ LET r == Force(lst)
       IN  /\ current' = r.node
           /\ calls' = r.calls
           /\ forced' = forced \cup SetOf(r.calls)
           /\ pc' = After(r)
    /\ ret' = <<>>
    /\ UNCHANGED <<lst, headCalls>>

\* the loop body, with the new element put in front
LoopStep_prepend ==
    /\ pc = "loop"
    /\ current # Null
    /\ Len(ret) < MaxSteps
    /\ ret' = <<HeadForce(current.head)>> \o ret
    /\ headCalls' = headCalls + 1
    /\ LET r == Force(current.tail)
       IN  /\ current' = r.node
           /\ calls' = r.calls
           /\ forced' = forced \cup SetOf(r.calls)
           /\ pc' = After(r)
    /\ UNCHANGED lst

\* while (current !== null) { ret = ret.concat([current.head()]); current = current.tail(); }
LoopStep ==
    /\ pc = "loop"
    /\ current # Null
    /\ Len(ret) < MaxSteps
    /\ ret' = ret \o <<HeadForce(current.head)>>
    /\ headCalls' = headCalls + 1
    /\ LET r == Force(current.tail)
       IN  /\ current' = r.node
           /\ calls' = r.calls
           /\ forced' = forced \cup SetOf(r.calls)
           /\ pc' = After(r)
    /\ UNCHANGED lst

\* current === null: return ret;
Return ==
    /\ pc = "loop"
    /\ current = Null
    /\ pc' = "done"
    /\ UNCHANGED <<lst, current, ret, calls, forced, headCalls>>

Next == Begin \/ LoopStep \/ Return

Spec == Init /\ [][Next]_vars

---------------------------------------------------------------------------
(* Properties *)

IsTake(l) == l.kind = "take"

Min(a, b) == IF a <= b THEN a ELSE b

\* how often the closure x was invoked in the log s
Count(s, x) == Cardinality({i \in 1..Len(s) : s[i] = x})

\* the number of forces the drain has performed on its list so far
Forces == IF pc = "start" THEN 0 ELSE Len(ret) + 1

Nowhere == [kind |-> "none"]

\* the list reached from l by j tail descents, Nowhere when there is none
RECURSIVE Drop(_, _)
Drop(l, j) ==
    IF j = 0 THEN l
    ELSE LET p == Drop(l, j - 1)
         IN  IF p = Nowhere THEN Nowhere
             ELSE LET r == Force(p)
                  IN  IF r.out = "node" THEN r.node.tail ELSE Nowhere

\* C1: forcing range(start) and descending k tails never yields null or an
\* error, and the node reached after k descents has the head start + k.
C1_RangeHeads ==
    lst.kind = "range" =>
        /\ pc \in {"start", "loop"}
        /\ pc = "loop" =>
              /\ current # Null
              /\ HeadForce(current.head) = lst.start + Len(ret)
        /\ \A i \in 1..Len(ret) : ret[i] = lst.start + i - 1

C1_Witness ==
    /\ lst.kind = "range"
    /\ pc = "loop"
    /\ Len(ret) >= 3

\* C2: draining take(n, xs) for n >= 0 and a finite xs of length L returns
\* the first min(n, L) elements of xs in order, also when n > L.
C2_TakeFinite ==
    (IsTake(lst) /\ lst.n >= 0 /\ lst.xs.kind = "toLazyList") =>
        /\ pc \notin Abnormal
        /\ pc = "done" =>
              ret = SubSeq(lst.xs.xs, 1, Min(lst.n, Len(lst.xs.xs)))

\* C3: forcing take(0, xs) returns null and invokes xs zero times, whatever
\* xs is: the force invokes nothing but the take closure itself.
C3_TakeZero ==
    /\ (pc # "start" /\ IsTake(calls[1]) /\ calls[1].n = 0) =>
          /\ calls = <<calls[1]>>
          /\ current = Null
          /\ pc \in {"loop", "done"}
    /\ (IsTake(lst) /\ lst.n = 0) =>
          /\ lst.xs \notin forced
          /\ ret = <<>>
          /\ pc \notin Abnormal

C3_Witness ==
    /\ lst = take(0, bottom)
    /\ pc = "done"

\* C4: draining take(n, xs) with n >= 0 never forces the list of xs at index
\* n or beyond, and invokes at most n head thunks.
C4_TakeBound ==
    (IsTake(lst) /\ lst.n >= 0) =>
        /\ headCalls <= lst.n
        /\ \A j \in lst.n..(MaxSteps + 1) : Drop(lst.xs, j) \notin forced

C4_Witness ==
    /\ IsTake(lst)
    /\ lst.n >= 2
    /\ lst.xs.kind = "cons"
    /\ Drop(lst.xs, lst.n) = bottom
    /\ headCalls = lst.n
    /\ pc = "done"

\* C5: one force of take(n, xs) with n > 0 and xs forcing to a node invokes
\* xs exactly once.
C5_ForceOnce ==
    (/\ pc # "start"
     /\ IsTake(calls[1])
     /\ calls[1].n > 0
     /\ Force(calls[1].xs).out = "node") =>
        Count(calls, calls[1].xs) = 1

\* C6: when xs forces to null while n > 0, forcing take(n, xs) yields null
\* and no error.
C6_ExhaustedIsNull ==
    (/\ pc # "start"
     /\ IsTake(calls[1])
     /\ calls[1].n > 0
     /\ Force(calls[1].xs).out = "null") =>
        /\ pc # "TypeError"
        /\ current = Null

\* C7: draining take(n, range(start)) with n >= 0 ends and returns exactly
\* <<start, start + 1, ..., start + n - 1>>.
C7_TakeRange ==
    (IsTake(lst) /\ lst.n >= 0 /\ lst.xs.kind = "range") =>
        /\ pc \notin Abnormal
        /\ Len(ret) <= lst.n
        /\ (pc = "loop" /\ Len(ret) = lst.n) => current = Null
        /\ pc = "done" =>
              ret = [i \in 1..lst.n |-> lst.xs.start + i - 1]

C7_Witness ==
    /\ lst = take(3, range(100))
    /\ pc = "done"
    /\ ret = <<100, 101, 102>>

\* C8: range computes no successor eagerly: before any force nothing has
\* been invoked, and after k forces exactly the closures of the nodes
\* 0..k-1 have been invoked while the closure of node k is still unforced.
C8_RangeLazy ==
    lst.kind = "range" =>
        /\ forced = {range(lst.start + j) : j \in 0..(Forces - 1)}
        /\ Len(calls) <= 1
        /\ pc = "loop" =>
              /\ current.tail = range(lst.start + Forces)
              /\ current.tail \notin forced

C8_Witness ==
    /\ lst.kind = "range"
    /\ Cardinality(forced) >= 3
    /\ current.tail \notin forced

\* C9: in a traversal of take(n, xs) with n >= 0 the list reached after k
\* descents carries the count n - k, which never goes below 0, and the
\* traversal ends in a force that returns null after at most n steps,
\* because the count reached 0 or because xs was exhausted.
C9_Countdown ==
    (IsTake(lst) /\ lst.n >= 0 /\ lst.xs.kind \in {"range", "toLazyList"}) =>
        /\ Len(ret) <= lst.n
        /\ (pc = "loop" /\ current # Null) =>
              /\ IsTake(current.tail)
              /\ current.tail.n = lst.n - Forces
              /\ current.tail.n >= 0
        /\ pc \notin Abnormal

\* C10: for n < 0 the test n === 0 succeeds at no depth of take(n, xs): the
\* count moves away from 0, over range no force returns null and the drain
\* never returns, and over a finite xs the traversal ends in a null
\* dereference once xs is used up.
C10_NegativeCount ==
    (IsTake(lst) /\ lst.n < 0) =>
        /\ pc # "done"
        /\ pc = "loop" =>
              /\ current # Null
              /\ IsTake(current.tail)
              /\ current.tail.n = lst.n - Forces
        /\ lst.xs.kind = "range" => pc \notin Abnormal
        /\ lst.xs.kind = "toLazyList" =>
              /\ pc = "loop" => Len(ret) < Len(lst.xs.xs)
              /\ pc \in Abnormal => (pc = "TypeError" /\ ret = lst.xs.xs)

C10_Witness ==
    /\ IsTake(lst)
    /\ lst.n < 0
    /\ lst.xs.kind = "range"
    /\ pc = "loop"
    /\ Len(ret) >= 3

====
